---- MODULE Spec2Model ----
(***************************************************************************)
(* Registration workflow and user lookup of blahii/server-predeploy.       *)
(*                                                                         *)
(* The three entry variants (src/index.js, src/unnamed/part_000,           *)
(* src/unnamed/part_001) share one register handler that differs only in   *)
(* the HTTP status codes of its failure responses; part_000 also has the   *)
(* GET /api/users/:id route.  The auth provider and the datastore are      *)
(* external: each awaited call is one step in which the collaborator       *)
(* applies its effect atomically and the handler runs on to its next       *)
(* await or to its response.                                               *)
(*                                                                         *)
(* JavaScript strings that the code inspects (email, route parameter) are  *)
(* sequences of one-character strings; opaque texts (messages, names) are  *)
(* TLA+ strings.                                                           *)
(***************************************************************************)
EXTENDS Integers, Sequences, FiniteSets, TLC

\* Number of POST /api/register requests that may be in flight together.
MaxRequests == 2

(***************************************************************************)
(* Strings                                                                 *)
(***************************************************************************)

\* A destructured field that the body does not carry (JavaScript undefined).
\* It is a one-element sequence whose element is no character, so it differs
\* from every string and String(undefined) contains neither "@" nor ".".
Undefined == <<"undefined">>

Whitespace == {" "}

UpperLetters ==
  <<"A", "B", "C", "D", "E", "F", "G", "H", "I", "J", "K", "L", "M",
    "N", "O", "P", "Q", "R", "S", "T", "U", "V", "W", "X", "Y", "Z">>

LowerLetters ==
  <<"a", "b", "c", "d", "e", "f", "g", "h", "i", "j", "k", "l", "m",
    "n", "o", "p", "q", "r", "s", "t", "u", "v", "w", "x", "y", "z">>

\* The lower-case letter of each upper-case ASCII letter.
LowerOf ==
  [c \in {UpperLetters[i] : i \in 1..Len(UpperLetters)} |->
     LowerLetters[CHOOSE i \in 1..Len(UpperLetters) : UpperLetters[i] = c]]

\* String.prototype.toLowerCase on one character (ASCII letters).
LowerChar(c) == IF c \in DOMAIN LowerOf THEN LowerOf[c] ELSE c

\* email.toLowerCase()
ToLowerCase(s) == [i \in 1..Len(s) |-> LowerChar(s[i])]

\* email.trim(): drop leading and trailing whitespace.
Trim(s) ==
  LET keep == {i \in 1..Len(s) : s[i] \notin Whitespace}
  IN  IF keep = {} THEN <<>>
      ELSE LET lo == CHOOSE i \in keep : \A j \in keep : i <= j
               hi == CHOOSE i \in keep : \A j \in keep : j <= i
           IN  SubSeq(s, lo, hi)

\* [^\s@]+ on the slice s[lo..hi]
NoSpaceNoAt(s, lo, hi) ==
  /\ lo <= hi
  /\ \A k \in lo..hi : s[k] \notin Whitespace /\ s[k] # "@"

\* /^[^\s@]+@[^\s@]+\.[^\s@]+$/.test(email)
EmailRegexTest(s) ==
  \E i \in 1..Len(s) :
    /\ s[i] = "@"
    /\ NoSpaceNoAt(s, 1, i - 1)
    /\ \E j \in (i + 1)..Len(s) :
         /\ s[j] = "."
         /\ NoSpaceNoAt(s, i + 1, j - 1)
         /\ NoSpaceNoAt(s, j + 1, Len(s))

HexDigits ==
  {"0", "1", "2", "3", "4", "5", "6", "7", "8", "9",
   "a", "b", "c", "d", "e", "f", "A", "B", "C", "D", "E", "F"}

DashPositions == {9, 14, 19, 24}

\* /^[0-9a-fA-F]{8}-[0-9a-fA-F]{4}-[0-9a-fA-F]{4}-[0-9a-fA-F]{4}-[0-9a-fA-F]{12}$/.test(id)
isValidUUID(id) ==
  /\ Len(id) = 36
  /\ \A k \in 1..36 :
       IF k \in DashPositions THEN id[k] = "-" ELSE id[k] \in HexDigits

(***************************************************************************)
(* Configuration and inputs                                                *)
(***************************************************************************)

\* The entry variants of the repository.
Variants == {"index.js", "part_000", "part_001"}

\* process.env.NODE_ENV
NodeEnvs == {"development", "production"}

\* An opaque field that is undefined (a missing name, an absent response field).
Absent == "undefined"

AnnEmail == <<"a", "n", "n", "@", "x", ".", "c">>

AnnEmailUpper == <<"A", "n", "n", "@", "X", ".", "c">>

BobEmail == <<"b", "o", "b", "@", "x", ".", "c">>

BadEmail == <<"b", "a", "d", "-", "e", "m", "a", "i", "l">>

SpacedEmail == <<" ", "a", "n", "n", "@", "x", ".", "c">>

GoodPassword == <<"s", "e", "c", "r", "e", "t", "1">>

ShortPassword == <<"1">>

Body(name, email, password, industry) ==
  [present |-> TRUE, name |-> name, email |-> email, password |-> password,
   industry |-> industry, country |-> Absent, phone |-> Absent]

\* req.body is undefined: no parser produced a body.
NoBody ==
  [present |-> FALSE, name |-> Absent, email |-> Undefined,
   password |-> Undefined, industry |-> Absent, country |-> Absent,
   phone |-> Absent]

\* The request bodies a client sends.
Bodies ==
  { NoBody,
    Body(Absent, BadEmail, Undefined, Absent),
    Body("Ann", Undefined, GoodPassword, Absent),
    Body("Ann", SpacedEmail, GoodPassword, Absent),
    Body("Ann", AnnEmail, GoodPassword, "film"),
    Body("Ann", AnnEmailUpper, GoodPassword, Absent),
    Body(Absent, BobEmail, GoodPassword, Absent),
    Body("Bob", BobEmail, ShortPassword, Absent) }

\* Error values the collaborators return, and the message of a thrown error.
AuthErrorMessages == {"User already registered", "Signup rejected"}

DbErrorMessage == "insert failed"

SelectErrorMessage == "select failed"

ThrownMessage == "fetch failed"

DestructureMessage == "Cannot destructure property 'name' of 'req.body'"

NullUserMessage == "Cannot read properties of null (reading 'id')"

NoError == "null"

\* authData.user of a signUp that returned an error, and an absent userId.
NoUser == 0

(***************************************************************************)
(* State                                                                   *)
(***************************************************************************)

VARIABLES
  variant,    \* which entry file is deployed
  nodeEnv,    \* process.env.NODE_ENV
  authUsers,  \* the auth provider's identities: records [id, email]
  users,      \* the rows of the datastore's users table
  nextId,     \* the next identity the auth provider assigns
  req,        \* one record per POST /api/register request
  lookup      \* the GET /api/users/:id request

vars == <<variant, nodeEnv, authUsers, users, nextId, req, lookup>>

Requests == 1..MaxRequests

LowerHex ==
  <<"0", "1", "2", "3", "4", "5", "6", "7", "8", "9", "a", "b", "c", "d", "e", "f">>

\* The UUID text of the n-th identity the auth provider assigns (n < 256).
UuidOf(n) ==
  [k \in 1..36 |->
     IF k \in DashPositions THEN "-"
     ELSE IF k = 7 THEN LowerHex[(n \div 16) + 1]
     ELSE IF k = 8 THEN LowerHex[(n % 16) + 1]
     ELSE IF k = 15 THEN "4"
     ELSE "0"]

\* A well-formed UUID that the auth provider never assigns.
StrangerUuid ==
  [k \in 1..36 |->
     IF k \in DashPositions THEN "-" ELSE IF k % 2 = 0 THEN "F" ELSE "a"]

\* The route parameters a client sends to GET /api/users/:id.
LookupIds ==
  {UuidOf(n) : n \in Requests}
    \cup { StrangerUuid,
           <<"n", "o", "t", "-", "a", "-", "u", "u", "i", "d">>,
           SubSeq(UuidOf(1), 1, 35),
           [UuidOf(1) EXCEPT ![1] = "g"],
           [UuidOf(1) EXCEPT ![9] = "0"] }

\* How each external call of a request ended ("none": not completed) and the
\* identity the auth provider created for it.
NoOutcomes ==
  [signUp |-> "none", insert |-> "none", deleteUser |-> "none", identity |-> NoUser]

\* A request's handler state (pc, the locals body, authData.user.id, authError,
\* dbError), the calls it has issued, the responses it has written, and what
\* the collaborators answered.
IdleRequest ==
  [pc |-> "idle", body |-> NoBody, authData |-> NoUser, authError |-> NoError,
   dbError |-> NoError, signUpCalls |-> <<>>, insertCalls |-> <<>>,
   deleteCalls |-> <<>>, responses |-> <<>>, outcomes |-> NoOutcomes]

IdleLookup ==
  [pc |-> "idle", id |-> <<>>, selectCalls |-> 0, outcome |-> "none",
   responses |-> <<>>]

Init ==
  /\ variant \in Variants
  /\ nodeEnv \in NodeEnvs
  /\ authUsers = {}
  /\ users = {}
  /\ nextId = 1
  /\ req = [r \in Requests |-> IdleRequest]
  /\ lookup = IdleLookup

(***************************************************************************)
(* POST /api/register                                                      *)
(***************************************************************************)

\* The status of the handler's failure responses outside the catch block:
\* 200 in index.js and part_001, 400 in part_000.
FailureStatus(v) == IF v = "part_000" THEN 400 ELSE 200

\* Mutant of ErrorDetail: the message is included whatever NODE_ENV is.
ErrorDetailAlways(env, message) == message

\* process.env.NODE_ENV === 'development' ? message : undefined
ErrorDetail(env, message) == IF env = "development" THEN message ELSE Absent

Response(status, success, message, userId, error) ==
  [status |-> status, success |-> success, message |-> message,
   userId |-> userId, error |-> error]

\* if (!req.body): 'Request body is missing'
BodyMissingResponse ==
  Response(FailureStatus(variant), FALSE, "Request body is missing", NoUser, Absent)

\* if (!email || !emailRegex.test(email)): 'Invalid email format'
InvalidEmailResponse ==
  Response(FailureStatus(variant), FALSE, "Invalid email format", NoUser, Absent)

\* if (authError): message: authError.message
AuthErrorResponse(authError) ==
  Response(FailureStatus(variant), FALSE, authError, NoUser, Absent)

\* if (dbError), after the compensating delete: 'Failed to create user profile'
PersistenceFailureResponse(dbError) ==
  Response(FailureStatus(variant), FALSE, "Failed to create user profile", NoUser,
           ErrorDetail(nodeEnv, dbError))

\* res.status(200).json({ success: true, ..., userId: authData.user.id })
SuccessResponse(userId) ==
  Response(200, TRUE, "User ${name} successfully registered!", userId, Absent)

\* catch (error): res.status(500), 'Internal server error'
CatchResponse(message) ==
  Response(500, FALSE, "Internal server error", NoUser,
           ErrorDetail(nodeEnv, message))

\* Mutant of EmailInvalid: only the presence of the email is checked.
EmailInvalidPresenceOnly(email) ==
  \/ email = Undefined
  \/ email = <<>>

\* !email || !emailRegex.test(email)
EmailInvalid(email) ==
  \/ email = Undefined
  \/ email = <<>>
  \/ ~EmailRegexTest(email)

\* Mutant of NormalizeEmail: the email is passed on as received.
NormalizeEmailAsReceived(email) == email

\* email.toLowerCase().trim()
NormalizeEmail(email) == Trim(ToLowerCase(email))

\* The argument of supabase.auth.signUp.
SignUpArgs(b) ==
  [email |-> NormalizeEmail(b.email), password |-> b.password,
   data |-> [name |-> b.name, industry |-> b.industry, country |-> b.country,
             phone |-> b.phone]]

\* Mutant of UserRow: the row stores the email as received.
UserRowRawEmail(b, id) ==
  [id |-> id, name |-> b.name, email |-> b.email,
   industry |-> b.industry, country |-> b.country, phone |-> b.phone]

\* The row handed to supabase.from('users').insert (created_at left out).
UserRow(b, id) ==
  [id |-> id, name |-> b.name, email |-> NormalizeEmail(b.email),
   industry |-> b.industry, country |-> b.country, phone |-> b.phone]

\* Mutant of AuthFailed: the returned error is not looked at.
AuthFailedIgnored(authError) == FALSE

\* if (authError)
AuthFailed(authError) == authError # NoError

\* Mutant of DbFailed: the returned error is not looked at.
DbFailedIgnored(dbError) == FALSE

\* Mutant of DbFailed: the cleanup branch is taken whatever the insert returned.
DbFailedAlways(dbError) == TRUE

\* if (dbError)
DbFailed(dbError) == dbError # NoError

\* Mutant of CompensationTarget: the identity is read from a value shared by
\* all requests (the identity created last) instead of the request's own.
CompensationTargetShared(r) == nextId - 1

\* The argument of supabase.auth.admin.deleteUser: authData.user.id
CompensationTarget(r) == req[r].authData

\* Mutant of Respond: the response is written twice (a missing return).
RespondTwice(r, response) ==
  [req EXCEPT ![r].pc = "done",
              ![r].responses = Append(Append(@, response), response)]

Respond(r, response) ==
  [req EXCEPT ![r].pc = "done", ![r].responses = Append(@, response)]

Last(seq) == seq[Len(seq)]

\* const { name, email, ... } = req.body throws a TypeError when req.body is
\* undefined; the throw lands in the handler's catch block.
DestructureThrows(b) == ~b.present

\* !req.body, evaluated after the destructuring
BodyFalsy(b) == ~b.present

\* A request arrives; the handler runs from its entry to the signUp call or to
\* an early response.  Requests are numbered in their order of arrival.
Register(r, b) ==
  /\ req[r].pc = "idle"
  /\ IF r = 1 THEN TRUE ELSE req[r - 1].pc # "idle"
  /\ LET arrived == [req EXCEPT ![r].body = b]
         respond(response) ==
           [arrived EXCEPT ![r].pc = "done", ![r].responses = Append(@, response)]
     IN  req' =
           IF DestructureThrows(b) THEN respond(CatchResponse(DestructureMessage))
           ELSE IF BodyFalsy(b) THEN respond(BodyMissingResponse)
           ELSE IF EmailInvalid(b.email) THEN respond(InvalidEmailResponse)
           ELSE [arrived EXCEPT ![r].pc = "signUp",
                                ![r].signUpCalls = Append(@, SignUpArgs(b))]
  /\ UNCHANGED <<variant, nodeEnv, authUsers, users, nextId, lookup>>

\* Mutant of AfterSignUp: a signUp that returned an error is tried once more.
AfterSignUpRetry(r, user, authError) ==
  LET returned == [req EXCEPT ![r].authData = user, ![r].authError = authError]
  IN  IF authError # NoError
        THEN IF Len(req[r].signUpCalls) < 2
               THEN [returned EXCEPT ![r].pc = "signUp",
                       ![r].signUpCalls = Append(@, Last(@))]
               ELSE [returned EXCEPT ![r].pc = "done",
                       ![r].responses = Append(@, AuthErrorResponse(authError))]
      ELSE [returned EXCEPT ![r].pc = "insert",
              ![r].insertCalls = Append(@, UserRow(req[r].body, user))]

\* The handler from the return of signUp to the insert call or to a response.
\* authData.user is null when signUp returned an error; reading its id throws.
AfterSignUp(r, user, authError) ==
  LET returned == [req EXCEPT ![r].authData = user, ![r].authError = authError]
  IN  IF AuthFailed(authError)
        THEN [returned EXCEPT ![r].pc = "done",
                ![r].responses = Append(@, AuthErrorResponse(authError))]
      ELSE IF user = NoUser
        THEN [returned EXCEPT ![r].pc = "done",
                ![r].responses = Append(@, CatchResponse(NullUserMessage))]
      ELSE [returned EXCEPT ![r].pc = "insert",
              ![r].insertCalls = Append(@, UserRow(req[r].body, user))]

\* The collaborator's answer to request r's call, kept beside the request.
Answered(q, r, call, outcome) == [q EXCEPT ![r].outcomes[call] = outcome]

\* The auth provider rejects an email that an identity already holds.
EmailTaken(email) == \E u \in authUsers : u.email = email

\* supabase.auth.signUp completes: the provider creates the identity, returns
\* an error, or the call throws; the handler runs on.
SignUpReturn(r) ==
  /\ req[r].pc = "signUp"
  /\ LET args == Last(req[r].signUpCalls)
     IN  \/ /\ ~EmailTaken(args.email)
            /\ authUsers' = authUsers \cup {[id |-> nextId, email |-> args.email]}
            /\ nextId' = nextId + 1
            /\ req' = [Answered(AfterSignUp(r, nextId, NoError), r, "signUp", "ok")
                         EXCEPT ![r].outcomes.identity = nextId]
         \/ /\ \E m \in AuthErrorMessages :
                 /\ m = "User already registered" => EmailTaken(args.email)
                 /\ req' = Answered(AfterSignUp(r, NoUser, m), r, "signUp", "error")
            /\ UNCHANGED <<authUsers, nextId>>
         \/ /\ req' = Answered(Respond(r, CatchResponse(ThrownMessage)), r, "signUp", "throw")
            /\ UNCHANGED <<authUsers, nextId>>
  /\ UNCHANGED <<variant, nodeEnv, users, lookup>>

\* Mutant of AfterInsert: deleteUser is started but not awaited; the failure
\* response is written at once.
AfterInsertNoAwait(r, dbError) ==
  IF dbError # NoError
    THEN [req EXCEPT ![r].dbError = dbError,
                     ![r].deleteCalls = Append(@, req[r].authData),
                     ![r].pc = "done",
                     ![r].responses = Append(@, PersistenceFailureResponse(dbError))]
    ELSE Respond(r, SuccessResponse(req[r].authData))

\* The handler from the return of the insert to the deleteUser call or to the
\* success response.
AfterInsert(r, dbError) ==
  IF DbFailed(dbError)
    THEN [req EXCEPT ![r].dbError = dbError,
                     ![r].deleteCalls = Append(@, CompensationTarget(r)),
                     ![r].pc = "deleteUser"]
    ELSE Respond(r, SuccessResponse(req[r].authData))

\* supabase.from('users').insert completes: the row is stored, an error is
\* returned, or the call throws; the handler runs on.
InsertReturn(r) ==
  /\ req[r].pc = "insert"
  /\ LET row == Last(req[r].insertCalls)
     IN  \/ /\ ~\E u \in users : u.id = row.id
            /\ users' = users \cup {row}
            /\ req' = Answered(AfterInsert(r, NoError), r, "insert", "ok")
         \/ /\ req' = Answered(AfterInsert(r, DbErrorMessage), r, "insert", "error")
            /\ UNCHANGED users
         \/ /\ req' = Answered(Respond(r, CatchResponse(ThrownMessage)), r, "insert", "throw")
            /\ UNCHANGED users
  /\ UNCHANGED <<variant, nodeEnv, authUsers, nextId, lookup>>

\* supabase.auth.admin.deleteUser completes: the identity is removed, an error
\* is returned (the handler discards the returned value), or the call throws.
DeleteUserReturn(r) ==
  /\ req[r].pc = "deleteUser"
  /\ LET id == Last(req[r].deleteCalls)
     IN  \/ /\ \E u \in authUsers : u.id = id
            /\ authUsers' = {u \in authUsers : u.id # id}
            /\ req' = Answered(Respond(r, PersistenceFailureResponse(req[r].dbError)),
                                r, "deleteUser", "ok")
         \/ /\ req' = Answered(Respond(r, PersistenceFailureResponse(req[r].dbError)),
                                r, "deleteUser", "error")
            /\ UNCHANGED authUsers
         \/ /\ req' = Answered(Respond(r, CatchResponse(ThrownMessage)),
                                r, "deleteUser", "throw")
            /\ UNCHANGED authUsers
  /\ UNCHANGED <<variant, nodeEnv, users, nextId, lookup>>

(***************************************************************************)
(* GET /api/users/:id (part_000)                                           *)
(***************************************************************************)

LookupResponse(status, success, message, data) ==
  [status |-> status, success |-> success, message |-> message, data |-> data]

\* Mutant of LookupRejects: only the length of the id is checked.
LookupRejectsLengthOnly(id) == Len(id) # 36

\* if (!isValidUUID(id))
LookupRejects(id) == ~isValidUUID(id)

\* Mutant of SelectById: the eq filter is missing.
SelectByIdUnfiltered(table, id) == table

\* supabase.from('users').select('*').eq('id', id)
SelectById(table, id) == {row \in table : UuidOf(row.id) = id}

\* A lookup arrives; the handler runs to the select call or rejects the id.
Lookup(id) ==
  /\ variant = "part_000"
  /\ lookup.pc = "idle"
  /\ lookup' =
       IF LookupRejects(id)
         THEN [lookup EXCEPT !.pc = "done", !.id = id,
                 !.responses = Append(@, LookupResponse(400, FALSE, "Invalid UUID", {}))]
         ELSE [lookup EXCEPT !.pc = "select", !.id = id, !.selectCalls = @ + 1]
  /\ UNCHANGED <<variant, nodeEnv, authUsers, users, nextId, req>>

\* The select completes: rows are returned, an error is returned, or the call
\* throws.  The route has no try/catch: a throw rejects the handler's promise
\* and the handler writes no response.
SelectReturn ==
  /\ lookup.pc = "select"
  /\ \/ lookup' = [lookup EXCEPT !.pc = "done", !.outcome = "ok",
                     !.responses = Append(@,
                        LookupResponse(200, TRUE, Absent, SelectById(users, lookup.id)))]
     \/ lookup' = [lookup EXCEPT !.pc = "done", !.outcome = "error",
                     !.responses = Append(@,
                        LookupResponse(500, FALSE, SelectErrorMessage, {}))]
     \/ lookup' = [lookup EXCEPT !.pc = "rejected", !.outcome = "throw"]
  /\ UNCHANGED <<variant, nodeEnv, authUsers, users, nextId, req>>

\* One step of register request r, its body drawn from bodies.
RegisterStep(r, bodies) ==
  \/ \E b \in bodies : Register(r, b)
  \/ SignUpReturn(r)
  \/ InsertReturn(r)
  \/ DeleteUserReturn(r)

\* Concurrent registrations against any variant.
Next == \E r \in Requests : RegisterStep(r, Bodies)

Spec == Init /\ [][Next]_vars

\* part_000 serving a lookup beside registrations that can store a profile.
LookupBodies ==
  { Body("Ann", AnnEmail, GoodPassword, "film"),
    Body("Bob", BobEmail, ShortPassword, Absent) }

InitLookup == Init /\ variant = "part_000"

NextLookup ==
  \/ \E r \in Requests : RegisterStep(r, LookupBodies)
  \/ \E id \in LookupIds : Lookup(id)
  \/ SelectReturn

SpecLookup == InitLookup /\ [][NextLookup]_vars

\* Every external call that was started completes: the collaborators answer.
CallsReturn ==
  /\ \A r \in Requests :
       /\ WF_vars(SignUpReturn(r))
       /\ WF_vars(InsertReturn(r))
       /\ WF_vars(DeleteUserReturn(r))
  /\ WF_vars(SelectReturn)

\* Bodies that take the handler down each of its paths: a registrable one, one
\* with a malformed email and a missing one.
LiveBodies ==
  { Body("Ann", AnnEmail, GoodPassword, "film"),
    Body(Absent, BadEmail, Undefined, Absent),
    NoBody }

\* A stored identity's id, a well-formed id nobody has and a malformed one.
LiveIds == {UuidOf(1), StrangerUuid, SubSeq(UuidOf(1), 1, 35)}

NextLive ==
  \/ \E r \in Requests : RegisterStep(r, LiveBodies)
  \/ \E id \in LiveIds : Lookup(id)
  \/ SelectReturn

\* part_000 with collaborators that answer every call.
SpecLive == InitLookup /\ [][NextLive]_vars /\ CallsReturn

TypeOK ==
  /\ variant \in Variants
  /\ nodeEnv \in NodeEnvs
  /\ nextId \in 1..(MaxRequests + 1)
  /\ \A r \in Requests :
       /\ req[r].pc \in {"idle", "signUp", "insert", "deleteUser", "done"}
       /\ req[r].body \in Bodies
  /\ lookup.pc \in {"idle", "select", "done", "rejected"}

(***************************************************************************)
(* Claims                                                                  *)
(***************************************************************************)

Arrived(r) == req[r].pc # "idle"

\* No external call has been issued for request r.
NoExternalCall(r) ==
  /\ req[r].signUpCalls = <<>>
  /\ req[r].insertCalls = <<>>
  /\ req[r].deleteCalls = <<>>

\* Request r has been answered once, with success=false.
FailedOnce(r) ==
  /\ req[r].pc = "done"
  /\ Len(req[r].responses) = 1
  /\ ~req[r].responses[1].success

\* C1: a register request whose email is missing or does not match the address
\* pattern is answered with success=false before any external call: signUp, the
\* users insert and deleteUser are never invoked for it, and when the request
\* has a body the answer is 'Invalid email format'.
C1_InvalidEmailNoExternalCall ==
  \A r \in Requests :
    (Arrived(r) /\ (req[r].body.email = Undefined \/ ~EmailRegexTest(req[r].body.email)))
      => /\ FailedOnce(r)
         /\ NoExternalCall(r)
         /\ req[r].body.present => req[r].responses[1].message = "Invalid email format"

\* A request with the email "bad-email" has been answered 'Invalid email format'.
C1_Witness ==
  \E r \in Requests :
    /\ req[r].body.present
    /\ req[r].body.email = BadEmail
    /\ req[r].pc = "done"
    /\ req[r].responses[1].message = "Invalid email format"

\* C2: when signUp returns an error the request is answered with success=false
\* and the auth provider's message, and neither the users insert nor deleteUser
\* is invoked for it.
C2_AuthErrorStopsWorkflow ==
  \A r \in Requests :
    req[r].outcomes.signUp = "error"
      => /\ FailedOnce(r)
         /\ req[r].authError \in AuthErrorMessages
         /\ req[r].responses[1].message = req[r].authError
         /\ req[r].insertCalls = <<>>
         /\ req[r].deleteCalls = <<>>

\* A request whose signUp returned an error has been answered.
C2_Witness ==
  \E r \in Requests :
    /\ req[r].outcomes.signUp = "error"
    /\ req[r].pc = "done"
    /\ req[r].responses[1].message = "Signup rejected"

C4_Claimed_CompensationFailureHidden ==
  \A r \in Requests :
    (req[r].outcomes.insert = "error" /\ req[r].outcomes.deleteUser \in {"error", "throw"})
      => /\ FailedOnce(r)
         /\ req[r].responses[1].message = "Failed to create user profile"

Succeeded(r) ==
  /\ req[r].pc = "done"
  /\ Len(req[r].responses) = 1
  /\ req[r].responses[1].success

\* C5: a request is answered success=true exactly when its signUp and its users
\* insert both succeeded; the answer then carries the identity signUp returned
\* and deleteUser was not invoked; an answer with success=false carries no
\* userId.
C5_SuccessIffBothSucceeded ==
  \A r \in Requests :
    /\ Succeeded(r) <=> (req[r].outcomes.signUp = "ok" /\ req[r].outcomes.insert = "ok")
    /\ Succeeded(r)
         => /\ req[r].responses[1].userId = req[r].outcomes.identity
            /\ req[r].responses[1].userId # NoUser
            /\ req[r].deleteCalls = <<>>
    /\ \A i \in 1..Len(req[r].responses) :
         ~req[r].responses[i].success => req[r].responses[i].userId = NoUser

\* A request has been answered success=true while another one failed.
C5_Witness ==
  \E r, q \in Requests :
    /\ Succeeded(r)
    /\ req[q].pc = "done"
    /\ ~req[q].responses[1].success
    /\ req[q].outcomes.insert = "error"

\* A password that is missing or one character long is shorter than any
\* minimum length.
PasswordTooShort(password) == password = Undefined \/ Len(password) <= 1

\* C6 (as claimed): a request whose name is missing or whose password is too
\* short is answered with success=false before any external call, also when
\* its email is well-formed.
C6_Claimed_NameAndPasswordValidated ==
  \A r \in Requests :
    (Arrived(r) /\ (req[r].body.name = Absent \/ PasswordTooShort(req[r].body.password)))
      => /\ FailedOnce(r)
         /\ req[r].signUpCalls = <<>>

\* C7: every row of the users table references an identity that exists in the
\* auth provider.
C7_ProfileHasIdentity ==
  \A row \in users : \E u \in authUsers : u.id = row.id

\* A profile is stored and another request's compensating delete has removed
\* that request's identity.
C7_Witness ==
  \E r, q \in Requests :
    /\ Succeeded(r)
    /\ \E row \in users : row.id = req[r].outcomes.identity
    /\ req[q].outcomes.deleteUser = "ok"
    /\ ~\E u \in authUsers : u.id = req[q].outcomes.identity

\* The address of each request body: its email lowercased and trimmed.
AddressOf == [b \in Bodies |-> Trim(ToLowerCase(b.email))]

\* Two bodies whose emails are the same address once lowercased and trimmed.
SameAddress(b1, b2) == AddressOf[b1] = AddressOf[b2]

\* The identity and the profile of request r are in place.
Intact(r) ==
  /\ \E u \in authUsers : u.id = req[r].outcomes.identity
  /\ \E row \in users : row.id = req[r].outcomes.identity

\* C8: of two requests whose emails are the same address once lowercased and
\* trimmed, at most one succeeds.  The one that succeeded keeps its identity and
\* its profile; the other one's signUp, when it comes after the identity of an
\* unremoved registration, returns an error, and a request whose signUp
\* returned an error inserts no profile and invokes no deleteUser.
C8_DuplicateEmailRejected ==
  \A r, q \in Requests :
    (/\ r # q
     /\ Arrived(r) /\ Arrived(q)
     /\ SameAddress(req[r].body, req[q].body))
      => /\ ~(Succeeded(r) /\ Succeeded(q))
         /\ Succeeded(r) => Intact(r)
         /\ (req[r].outcomes.identity # NoUser /\ req[q].outcomes.identity > req[r].outcomes.identity)
              => (req[r].outcomes.deleteUser = "ok" /\ ~Succeeded(r))
         /\ req[q].outcomes.signUp = "error"
              => (req[q].insertCalls = <<>> /\ req[q].deleteCalls = <<>> /\ FailedOnce(q))

\* A request with ann@x.c succeeded and one with Ann@X.c was refused by the
\* auth provider as a duplicate.
C8_Witness ==
  \E r, q \in Requests :
    /\ req[r].body.email # req[q].body.email
    /\ SameAddress(req[r].body, req[q].body)
    /\ Succeeded(r)
    /\ Intact(r)
    /\ req[q].outcomes.signUp = "error"
    /\ req[q].authError = "User already registered"
    /\ req[q].pc = "done"

\* C9: a lookup whose id does not have UUID shape is answered 400
\* 'Invalid UUID' with success=false and the select is never invoked.
C9_MalformedIdNotQueried ==
  (lookup.pc # "idle" /\ ~isValidUUID(lookup.id))
    => /\ lookup.pc = "done"
       /\ lookup.responses = <<LookupResponse(400, FALSE, "Invalid UUID", {})>>
       /\ lookup.selectCalls = 0
       /\ lookup.outcome = "none"

\* An id of the right length with a letter that is no hex digit was refused.
C9_Witness ==
  /\ lookup.pc = "done"
  /\ lookup.id = [UuidOf(1) EXCEPT ![1] = "g"]
  /\ lookup.responses[1].message = "Invalid UUID"

\* What a step of the lookup handler must satisfy.
C10_Step ==
  lookup' # lookup
    => /\ users' = users
       /\ authUsers' = authUsers
       /\ (lookup.pc = "idle" /\ isValidUUID(lookup'.id))
            => (lookup'.pc = "select" /\ lookup'.selectCalls = 1 /\ lookup'.responses = <<>>)
       /\ lookup'.outcome = "ok"
            => lookup'.responses =
                 <<LookupResponse(200, TRUE, Absent,
                                  {row \in users : UuidOf(row.id) = lookup.id})>>
       /\ lookup'.outcome = "error"
            => /\ Len(lookup'.responses) = 1
               /\ ~lookup'.responses[1].success
               /\ lookup'.responses[1].message = SelectErrorMessage

\* C10: a lookup with a well-formed UUID issues one select; when the select
\* returns rows the answer is success=true with exactly the users rows whose id
\* is the requested one (none when there is none); when the select returns an
\* error the answer is an error result; no step of the lookup changes the users
\* table or the auth provider's identities.
C10_LookupReturnsMatchingRows == [][C10_Step]_vars

\* A lookup has been answered with one profile and the users table holds two.
C10_Witness ==
  /\ lookup.outcome = "ok"
  /\ Cardinality(users) = 2
  /\ Cardinality(lookup.responses[1].data) = 1

\* The variants whose failure responses are written with res.status(200).
AlwaysOkVariants == {"index.js", "part_001"}

\* C11 (as claimed): in index.js and part_001 every response of the register
\* route has status 200, on every path.
C11_Claimed_AlwaysStatus200 ==
  variant \in AlwaysOkVariants
    => \A r \in Requests :
         \A i \in 1..Len(req[r].responses) : req[r].responses[i].status = 200

\* An external call of request r threw, or its body could not be destructured.
ExceptionRaised(r) ==
  \/ Arrived(r) /\ ~req[r].body.present
  \/ req[r].outcomes.signUp = "throw"
  \/ req[r].outcomes.insert = "throw"
  \/ req[r].outcomes.deleteUser = "throw"

\* C12 (as claimed): a request during which an exception was raised, in the
\* register route or in the lookup route, is answered once with success=false
\* and 'Internal server error'.
C12_Claimed_ExceptionsAnswered ==
  /\ \A r \in Requests :
       ExceptionRaised(r)
         => (FailedOnce(r) /\ req[r].responses[1].message = "Internal server error")
  /\ lookup.outcome = "throw"
       => /\ Len(lookup.responses) = 1
          /\ ~lookup.responses[1].success
          /\ lookup.responses[1].message = "Internal server error"

\* No register request is in flight.
AllFinished == \A r \in Requests : req[r].pc \in {"idle", "done"}

\* C13 (as claimed): once every register request has finished, an identity
\* without a users row is one for which a compensating deleteUser was issued
\* and failed.
C13_Claimed_OrphanOnlyByFailedDelete ==
  AllFinished
    => \A u \in authUsers :
         (~\E row \in users : row.id = u.id)
           => \E r \in Requests :
                /\ req[r].outcomes.identity = u.id
                /\ req[r].deleteCalls = <<u.id>>
                /\ req[r].outcomes.deleteUser \in {"error", "throw"}

\* The external calls of request r that were started and have not completed.
InFlight(r) ==
  {c \in {"signUp", "insert", "deleteUser"} :
     /\ req[r].outcomes[c] = "none"
     /\ \/ c = "signUp" /\ req[r].signUpCalls # <<>>
        \/ c = "insert" /\ req[r].insertCalls # <<>>
        \/ c = "deleteUser" /\ req[r].deleteCalls # <<>>}

\* C14: within one register request the external calls are ordered and never
\* overlap: the insert is started only after signUp completed successfully,
\* deleteUser only after the insert completed with an error, at most one call is
\* in flight, and once the response is written no call of the request is.
C14_CallsSequential ==
  \A r \in Requests :
    /\ req[r].insertCalls # <<>> => req[r].outcomes.signUp = "ok"
    /\ req[r].deleteCalls # <<>> => req[r].outcomes.insert = "error"
    /\ Cardinality(InFlight(r)) <= 1
    /\ req[r].responses # <<>> => InFlight(r) = {}

\* A request went through signUp, a failed insert and deleteUser, and was
\* answered after the delete completed.
C14_Witness ==
  \E r \in Requests :
    /\ req[r].outcomes.signUp = "ok"
    /\ req[r].outcomes.insert = "error"
    /\ req[r].outcomes.deleteUser # "none"
    /\ Len(req[r].responses) = 1

\* The numbers of signUp, insert and deleteUser calls issued for request r.
CallCounts(q, r) ==
  <<Len(q[r].signUpCalls), Len(q[r].insertCalls), Len(q[r].deleteCalls)>>

\* A step issues no call for a request that has been answered.
C15_Step ==
  \A r \in Requests :
    req[r].responses # <<>> => CallCounts(req', r) = CallCounts(req, r)

\* C15: nothing is retried: for every register request signUp, the insert and
\* deleteUser are each invoked at most once, and no external call is issued for
\* a request after its response was written.
C15_NothingRetried ==
  /\ [](\A r \in Requests :
          /\ Len(req[r].signUpCalls) <= 1
          /\ Len(req[r].insertCalls) <= 1
          /\ Len(req[r].deleteCalls) <= 1)
  /\ [][C15_Step]_vars

\* A request whose signUp returned an error has been answered, with one signUp
\* call, beside a request that used all three calls once.
C15_Witness ==
  /\ \E r \in Requests :
       /\ req[r].outcomes.signUp = "error"
       /\ req[r].pc = "done"
       /\ CallCounts(req, r) = <<1, 0, 0>>
  /\ \E r \in Requests :
       /\ req[r].pc = "done"
       /\ CallCounts(req, r) = <<1, 1, 1>>

\* C16: the email handed to signUp and the email of the inserted users row are
\* the same value, the request email lowercased and trimmed; the row's id is
\* the identity signUp returned; the row's name, industry, country and phone
\* are those sent as signUp metadata.  Every stored row is such a row.
C16_RowMatchesSignUp ==
  /\ \A r \in Requests :
       req[r].insertCalls # <<>>
         => LET row == req[r].insertCalls[1]
                args == req[r].signUpCalls[1]
            IN  /\ args.email = AddressOf[req[r].body]
                /\ row.email = args.email
                /\ row.id = req[r].outcomes.identity
                /\ row.name = args.data.name
                /\ row.industry = args.data.industry
                /\ row.country = args.data.country
                /\ row.phone = args.data.phone
  /\ \A row \in users :
       \E r \in Requests : req[r].insertCalls = <<row>>

\* A request sent with an upper-case email has its row stored.
C16_Witness ==
  \E r \in Requests :
    /\ req[r].body.email = AnnEmailUpper
    /\ req[r].insertCalls # <<>>
    /\ req[r].insertCalls[1] \in users
    /\ req[r].insertCalls[1].email = AnnEmail

\* C17 (as claimed): a register request that arrives with req.body undefined is
\* answered with success=false and 'Request body is missing', with no external
\* call.
C17_Claimed_MissingBodyMessage ==
  \A r \in Requests :
    (Arrived(r) /\ ~req[r].body.present)
      => /\ FailedOnce(r)
         /\ req[r].responses[1].message = "Request body is missing"
         /\ NoExternalCall(r)

\* The messages of the persistence-failure and internal-error responses.
GuardedMessages == {"Failed to create user profile", "Internal server error"}

\* C18: when NODE_ENV is not 'development', a register response for a
\* persistence failure or an internal error has no error field, whatever the
\* underlying error was.
C18_NoErrorDetailInProduction ==
  nodeEnv # "development"
    => \A r \in Requests :
         \A i \in 1..Len(req[r].responses) :
           req[r].responses[i].message \in GuardedMessages
             => req[r].responses[i].error = Absent

\* In production one request was answered with a persistence failure and
\* another with an internal error.
C18_Witness ==
  /\ nodeEnv = "production"
  /\ \E r \in Requests :
       /\ req[r].outcomes.insert = "error"
       /\ req[r].pc = "done"
       /\ req[r].responses[1].message = "Failed to create user profile"
  /\ \E r \in Requests :
       /\ ExceptionRaised(r)
       /\ req[r].pc = "done"
       /\ req[r].responses[1].message = "Internal server error"

\* Request r has terminated with one response.
AnsweredOnce(r) == req[r].pc = "done" /\ Len(req[r].responses) = 1

\* The lookup has terminated with one response.
LookupAnsweredOnce == lookup.pc = "done" /\ Len(lookup.responses) = 1

\* A terminated request stays terminated with its one response.
C19_Stable ==
  /\ \A r \in Requests : AnsweredOnce(r) => AnsweredOnce(r)'
  /\ LookupAnsweredOnce => LookupAnsweredOnce'

\* C19: when every external call returns with a result or an error value, every
\* register request and every lookup terminates having written exactly one
\* response, never zero and never two, whatever the calls returned.  A select
\* that throws returns neither a result nor an error value.
C19_ExactlyOneResponse ==
  /\ [](/\ \A r \in Requests : Len(req[r].responses) <= 1
        /\ Len(lookup.responses) <= 1)
  /\ [][C19_Stable]_vars
  /\ \A r \in Requests : Arrived(r) ~> AnsweredOnce(r)
  /\ (lookup.pc # "idle") ~> (LookupAnsweredOnce \/ lookup.outcome = "throw")

\* Two requests have terminated, one after deleteUser and one with its profile
\* stored, and the lookup has returned rows.
C19_Witness ==
  /\ \E r \in Requests : AnsweredOnce(r) /\ req[r].outcomes.deleteUser # "none"
  /\ \E r \in Requests : AnsweredOnce(r) /\ req[r].outcomes.insert = "ok"
  /\ LookupAnsweredOnce
  /\ lookup.outcome = "ok"

====
